---- MODULE Spec2Model ----
(***************************************************************************)
(* Medallion-Warehouse: the mock data generators (generators/mock_data.py) *)
(* and the WarehouseManager (warehouse/manager.py) as state machines.      *)
(*                                                                         *)
(* Numbers are fixed point.  Money: catalog prices are in cents, the       *)
(* jitter of random.uniform in 1e-3, so an unrounded unit price is in      *)
(* 1e-5; values rounded to 4 decimals are in 1e-4.  Time: elapsed wall     *)
(* clock is in nanoseconds; one nanosecond is also the unit of unrounded   *)
(* credits (CREDITS_PER_SECOND = 1/60, so 1e-8 credit = 600 ns).           *)
(* Dates are day numbers.  The values Faker produces (uuid4, unique        *)
(* e-mail) are tokens numbered by their position in the seeded Faker       *)
(* stream: two positions give two different values.                        *)
(***************************************************************************)
EXTENDS Integers, Sequences, FiniteSets, TLC

VARIABLES
    \* ---- module state of generators/mock_data.py
    rnd_pos,     \* loop iterations drawn from the seeded streams since seeding
    fake_count,  \* tokens taken from `fake` since Faker.seed(42)
    stream,      \* what the seed-42 streams hold, as far as it has been drawn
    today,       \* the day the wall clock shows
    \* ---- one generator call
    gen,         \* which generator is running
    n,           \* its argument
    pool,        \* session_pool / email_pool / txn_pool
    i,           \* loop index
    records,     \* rows / records built so far
    pc,          \* "idle", "loop", "returned", "raised"
    call_start,  \* rnd_pos when the call began
    calls,       \* calls of the generator completed before this one
    prev_out,    \* what the previous call of the same generator gave
    \* ---- generate_all
    files,       \* output file name -> "absent" or chunks on disk
    ga_pc,       \* position in generate_all
    ga_k,        \* dataset being produced (1..3)
    ga_w,        \* chunks of it written to the open file
    \* ---- WarehouseManager
    credit_log,  \* self._credit_log
    schemas,     \* schemas existing in the database
    report,      \* the dict get_credit_report returned last
    last         \* the last call made on the manager and what it did

genVars == <<rnd_pos, fake_count, stream, today, gen, n, pool, i, records, pc,
             call_start, calls, prev_out>>
gaVars  == <<files, ga_pc, ga_k, ga_w>>
whVars  == <<credit_log, schemas, report, last>>
vars    == <<genVars, gaVars, whVars>>

-----------------------------------------------------------------------------
\* Bounds of the model

MaxN == 3
NegN == 1
RepeatN == 2
MaxRepeats == 1
MaxDayShift == 1
MaxUserIdx == 1
MaxStateIdx == 2
MaxProductIdx == 1
MaxQtyDraw == 2
Chunks == 3
MaxLog == 2

\* Sample points of random.uniform(0.85, 1.15), in 1e-3
Jitters == {1000, 923}

\* Sample points of Faker's date draws: days after the start of the window
DateOffs == {0}

\* Sample points of time.perf_counter() differences, in ns
ElapsedSamples == {1499, 61000700}

Labels == {"q1", "q2"}

Min(a, b) == IF a < b THEN a ELSE b

RECURSIVE SumSeq(_)
SumSeq(s) == IF s = <<>> THEN 0 ELSE Head(s) + SumSeq(Tail(s))

-----------------------------------------------------------------------------
\* Constants of generators/mock_data.py

USER_POOL_SIZE == 5000
SESSION_KEEP_PCT == 97
EMAIL_KEEP_PCT == 98
TXN_KEEP_PCT == 98
SESSION_BUCKET == 100
EMAIL_BUCKET == 200
TXN_BUCKET == 100
QTY_MAX == 10
JITTER_LO == 850
JITTER_HI == 1150
FUTURE_DAYS == 180
DAYS_PER_YEAR == 365
EVENT_LOOKBACK_Y == 3
SIGNUP_LOOKBACK_Y == 5
TXN_LOOKBACK_Y == 3

US_STATES_ABBR ==
    << "AL", "AK", "AZ", "AR", "CA", "CO", "CT", "DE", "FL", "GA",
       "HI", "ID", "IL", "IN", "IA", "KS", "KY", "LA", "ME", "MD",
       "MA", "MI", "MN", "MS", "MO", "MT", "NE", "NV", "NH", "NJ",
       "NM", "NY", "NC", "ND", "OH", "OK", "OR", "PA", "RI", "SC",
       "SD", "TN", "TX", "UT", "VT", "VA", "WA", "WV", "WI", "WY" >>

STATE_FULL_NAMES ==
    ("AL" :> "Alabama") @@ ("AK" :> "Alaska") @@ ("AZ" :> "Arizona") @@ ("AR" :> "Arkansas") @@
    ("CA" :> "California") @@ ("CO" :> "Colorado") @@ ("CT" :> "Connecticut") @@ ("DE" :> "Delaware") @@
    ("FL" :> "Florida") @@ ("GA" :> "Georgia") @@ ("HI" :> "Hawaii") @@ ("ID" :> "Idaho") @@
    ("IL" :> "Illinois") @@ ("IN" :> "Indiana") @@ ("IA" :> "Iowa") @@ ("KS" :> "Kansas") @@
    ("KY" :> "Kentucky") @@ ("LA" :> "Louisiana") @@ ("ME" :> "Maine") @@ ("MD" :> "Maryland") @@
    ("MA" :> "Massachusetts") @@ ("MI" :> "Michigan") @@ ("MN" :> "Minnesota") @@ ("MS" :> "Mississippi") @@
    ("MO" :> "Missouri") @@ ("MT" :> "Montana") @@ ("NE" :> "Nebraska") @@ ("NV" :> "Nevada") @@
    ("NH" :> "New Hampshire") @@ ("NJ" :> "New Jersey") @@ ("NM" :> "New Mexico") @@ ("NY" :> "New York") @@
    ("NC" :> "North Carolina") @@ ("ND" :> "North Dakota") @@ ("OH" :> "Ohio") @@ ("OK" :> "Oklahoma") @@
    ("OR" :> "Oregon") @@ ("PA" :> "Pennsylvania") @@ ("RI" :> "Rhode Island") @@ ("SC" :> "South Carolina") @@
    ("SD" :> "South Dakota") @@ ("TN" :> "Tennessee") @@ ("TX" :> "Texas") @@ ("UT" :> "Utah") @@
    ("VT" :> "Vermont") @@ ("VA" :> "Virginia") @@ ("WA" :> "Washington") @@ ("WV" :> "West Virginia") @@
    ("WI" :> "Wisconsin") @@ ("WY" :> "Wyoming")

\* (product_id, catalog price in cents); name and category are not modelled
PRODUCTS ==
    << <<"P001", 129999>>, <<"P002", 2999>>, <<"P003", 44999>>, <<"P004", 11999>>,
       <<"P005", 4999>>, <<"P006", 3499>>, <<"P007", 29999>>, <<"P008", 8999>>,
       <<"P009", 18999>>, <<"P010", 2499>>, <<"P011", 59999>>, <<"P012", 34999>>,
       <<"P013", 3999>>, <<"P014", 5499>>, <<"P015", 7999>>
    >>

Gens == {"events", "users", "transactions"}

-----------------------------------------------------------------------------
\* Pure helpers of the generators

\* int(x) of Python: truncation toward zero of num / den (den > 0)
IntTrunc(num, den) == IF num >= 0 THEN num \div den ELSE -((-num) \div den)

\* int(n * 0.97), int(n * 0.98): the size of a key pool
PoolSize(cnt, pct) == IntTrunc(cnt * pct, 100)

\* [fake.uuid4() for _ in range(size)]: the next `size` tokens of the stream;
\* range(size) is empty for size <= 0
BuildPool(first, size) == [k \in 1..size |-> first + k]

\* seq[:k]
Prefix(seq, k) == SubSeq(seq, 1, Min(k, Len(seq)))

\* round(x, 4) of a non-negative x given in 1e-5: the result in 1e-4,
\* ties to even
Round4(x) ==
    LET q == x \div 10
        r == x % 10
    IN  IF r < 5 THEN q
        ELSE IF r > 5 THEN q + 1
        ELSE IF q % 2 = 0 THEN q ELSE q + 1

StateVal_FirstName(state_abbr, full) ==
    IF full THEN STATE_FULL_NAMES[US_STATES_ABBR[1]] ELSE state_abbr

\* STATE_FULL_NAMES[state_abbr] if random.random() < 0.30 else state_abbr
StateVal(state_abbr, full) ==
    IF full THEN STATE_FULL_NAMES[state_abbr] ELSE state_abbr

Positional_Shifted(idx, len) == (idx + 1) % len

\* i % len(email_pool), i % len(txn_pool): 0-based position in the pool
Positional(idx, len) == idx % len

\* product[3] * random.uniform(0.85, 1.15), in 1e-5
UnitPriceRaw(cents, jitter) == cents * jitter

\* total = round(qty * unit_price, 4), in 1e-4
Total(qty, raw) == Round4(qty * raw)

\* "unit_price": round(unit_price, 4), in 1e-4
EmittedUnitPrice(raw) == Round4(raw)

\* if random.random() < 0.01: total = -abs(total)
Refund(total, fire) == IF fire THEN -(IF total < 0 THEN -total ELSE total) ELSE total

-----------------------------------------------------------------------------
\* The seeded streams.  Faker.seed(42) and random.seed(42) run once, when the
\* module is imported; what a loop iteration draws is decided by the seed and
\* by how many iterations were drawn before it.

Draw(d) ==
    /\ rnd_pos < Len(stream) => d = stream[rnd_pos + 1]
    /\ stream' = IF rnd_pos < Len(stream) THEN stream ELSE Append(stream, d)
    /\ rnd_pos' = rnd_pos + 1

\* the draws of record k (1-based) of the running call
DrawOf(k) == stream[call_start + k]

Outcome == [status |-> pc, rows |-> records]
NoOutcome == [status |-> "none", rows |-> <<>>]

GenInit ==
    /\ rnd_pos = 0
    /\ fake_count = 0
    /\ stream = <<>>
    /\ today = 0
    /\ gen = "none"
    /\ n = 0
    /\ pool = <<>>
    /\ i = 0
    /\ records = <<>>
    /\ pc = "idle"
    /\ call_start = 0
    /\ calls = 0
    /\ prev_out = NoOutcome

\* (file name, generator, rows asked for, percent of rows kept as pool keys)
DATASETS ==
    << <<"web_events.json", "events", 40000, SESSION_KEEP_PCT>>,
       <<"crm_users.csv", "users", 30000, EMAIL_KEEP_PCT>>,
       <<"sales_transactions.parquet", "transactions", 30000, TXN_KEEP_PCT>> >>

FileNames == {DATASETS[k][1] : k \in 1..Len(DATASETS)}

GaIdle ==
    /\ files = [f \in FileNames |-> "absent"]
    /\ ga_pc = "idle"
    /\ ga_k = 0
    /\ ga_w = 0

SCHEMAS == {"bronze", "silver", "gold"}
DROP_ORDER == <<"gold", "silver", "bronze">>

NoReport == [entries_obj |-> "none", entries |-> <<>>,
             total_elapsed_s |-> 0, total_credits |-> 0]

WhIdle ==
    /\ credit_log = <<>>
    /\ schemas = {}
    /\ report = NoReport
    /\ last = [op |-> "init", confirm |-> FALSE, outcome |-> "ok",
               stmts |-> <<>>, txns |-> 0, label |-> "", elapsed |-> 0]

-----------------------------------------------------------------------------
\* Entry of a generator: everything before its loop

Call(g, cnt) ==
    /\ pc = "idle"
    /\ gen' = g
    /\ n' = cnt
    /\ i' = 0
    /\ records' = <<>>
    /\ pc' = "loop"
    /\ call_start' = rnd_pos
    /\ IF g = "events"
       THEN \* user_pool of 5000 tokens, then session_pool
            /\ pool' = BuildPool(fake_count + USER_POOL_SIZE, PoolSize(cnt, SESSION_KEEP_PCT))
            /\ fake_count' = fake_count + USER_POOL_SIZE + Len(pool')
       ELSE IF g = "users"
       THEN /\ pool' = BuildPool(fake_count, PoolSize(cnt, EMAIL_KEEP_PCT))
            /\ fake_count' = fake_count + Len(pool')
       ELSE /\ pool' = BuildPool(fake_count, PoolSize(cnt, TXN_KEEP_PCT))
            /\ fake_count' = fake_count + Len(pool')
    /\ UNCHANGED <<rnd_pos, stream, today, calls, prev_out>>

\* user_pool[idx] (1-based) of the running generate_web_events call
UserPoolAt(idx) == fake_count - Len(pool) - USER_POOL_SIZE + idx

\* for _ in range(n) of generate_web_events: one iteration
EventStep ==
    /\ pc = "loop" /\ gen = "events" /\ i < n
    /\ LET bucket == Prefix(pool, SESSION_BUCKET) IN
       \E null_user \in BOOLEAN, dup \in BOOLEAN,
          user_idx \in 1..Min(MaxUserIdx, USER_POOL_SIZE),
          off \in {o \in DateOffs : o <= EVENT_LOOKBACK_Y * DAYS_PER_YEAR},
          sess_idx \in 0..Len(pool) :
         /\ IF pool = <<>> THEN sess_idx = 0
            ELSE sess_idx \in 1..(IF dup THEN Len(bucket) ELSE Len(pool))
         /\ Draw([null_user |-> null_user, user_idx |-> user_idx, dup |-> dup,
                  sess_idx |-> sess_idx, off |-> off])
         /\ IF pool = <<>>
            THEN \* random.choice of an empty sequence: IndexError
                 /\ pc' = "raised"
                 /\ records' = <<>>
                 /\ i' = i
            ELSE /\ records' = Append(records,
                       [user_id |-> IF null_user THEN 0 ELSE UserPoolAt(user_idx),
                        session_id |-> IF dup THEN bucket[sess_idx] ELSE pool[sess_idx],
                        ts |-> today - EVENT_LOOKBACK_Y * DAYS_PER_YEAR + off])
                 /\ i' = i + 1
                 /\ pc' = pc
    /\ UNCHANGED <<fake_count, today, gen, n, pool, call_start, calls, prev_out>>

\* for i in range(n) of generate_crm_users: one iteration
UserStep ==
    /\ pc = "loop" /\ gen = "users" /\ i < n
    /\ LET bucket == Prefix(pool, EMAIL_BUCKET) IN
       \E abbr_idx \in 1..Min(MaxStateIdx, Len(US_STATES_ABBR)),
          full \in BOOLEAN, dup \in BOOLEAN,
          off \in {o \in DateOffs : o <= SIGNUP_LOOKBACK_Y * DAYS_PER_YEAR},
          email_idx \in 0..Len(pool) :
         \* random.random() < 0.02 and email_pool
         /\ IF dup /\ pool # <<>> THEN email_idx \in 1..Len(bucket) ELSE email_idx = 0
         /\ Draw([abbr_idx |-> abbr_idx, full |-> full, dup |-> dup,
                  email_idx |-> email_idx, off |-> off])
         /\ IF pool = <<>>
            THEN \* i % len(email_pool) with an empty pool: ZeroDivisionError
                 /\ pc' = "raised"
                 /\ records' = <<>>
                 /\ i' = i
                 /\ fake_count' = fake_count
            ELSE /\ records' = Append(records,
                       [user_id |-> fake_count + 1,
                        email |-> IF dup THEN bucket[email_idx]
                                  ELSE pool[Positional(i, Len(pool)) + 1],
                        state |-> StateVal(US_STATES_ABBR[abbr_idx], full),
                        signup_date |-> today - SIGNUP_LOOKBACK_Y * DAYS_PER_YEAR + off])
                 /\ i' = i + 1
                 /\ pc' = pc
                 /\ fake_count' = fake_count + 1
    /\ UNCHANGED <<today, gen, n, pool, call_start, calls, prev_out>>

\* for i in range(n) of generate_sales_transactions: one iteration
TxnStep ==
    /\ pc = "loop" /\ gen = "transactions" /\ i < n
    /\ LET bucket == Prefix(pool, TXN_BUCKET) IN
       \E prod_idx \in 1..Min(MaxProductIdx, Len(PRODUCTS)),
          qty \in 1..Min(MaxQtyDraw, QTY_MAX),
          jitter \in {j \in Jitters : JITTER_LO <= j /\ j <= JITTER_HI},
          refund \in BOOLEAN, future \in BOOLEAN, dup \in BOOLEAN,
          off \in {o \in DateOffs : o <= FUTURE_DAYS},
          txn_idx \in 0..Len(pool) :
         \* random.random() < 0.02 and txn_pool
         /\ IF dup /\ pool # <<>> THEN txn_idx \in 1..Len(bucket) ELSE txn_idx = 0
         /\ Draw([prod_idx |-> prod_idx, qty |-> qty, jitter |-> jitter,
                  refund |-> refund, future |-> future, dup |-> dup,
                  txn_idx |-> txn_idx, off |-> off])
         /\ IF pool = <<>>
            THEN \* i % len(txn_pool) with an empty pool: ZeroDivisionError
                 /\ pc' = "raised"
                 /\ records' = <<>>
                 /\ i' = i
                 /\ fake_count' = fake_count
            ELSE LET product == PRODUCTS[prod_idx]
                     unit_price == UnitPriceRaw(product[2], jitter)
                     total == Refund(Total(qty, unit_price), refund)
                     txn_date == IF future THEN today + off
                                 ELSE today - TXN_LOOKBACK_Y * DAYS_PER_YEAR + off
                 IN
                 /\ records' = Append(records,
                       [transaction_id |-> IF dup THEN bucket[txn_idx]
                                           ELSE pool[Positional(i, Len(pool)) + 1],
                        user_id |-> fake_count + 1,
                        product_id |-> product[1],
                        quantity |-> qty,
                        unit_price |-> EmittedUnitPrice(unit_price),
                        total_amount |-> total,
                        transaction_date |-> txn_date])
                 /\ i' = i + 1
                 /\ pc' = pc
                 /\ fake_count' = fake_count + 1
    /\ UNCHANGED <<today, gen, n, pool, call_start, calls, prev_out>>

\* range(n) is exhausted (at once when n <= 0): return rows
Return ==
    /\ pc = "loop" /\ i >= n
    /\ pc' = "returned"
    /\ UNCHANGED <<rnd_pos, fake_count, stream, today, gen, n, pool, i, records,
                   call_start, calls, prev_out>>

\* A caller invokes one generator with some n
Invoke ==
    /\ calls = 0
    /\ \E g \in Gens, cnt \in (0 - NegN)..MaxN : Call(g, cnt)

InvokeUsers ==
    /\ calls = 0
    /\ \E cnt \in (0 - NegN)..MaxN : Call("users", cnt)

\* The generator is invoked with the same n as before (or for the first time)
InvokeRepeat ==
    \E g \in Gens : (calls > 0 => g = gen) /\ Call(g, RepeatN)

\* The caller keeps the result and calls again in the same process: nothing
\* re-seeds the streams
SameProcessAgain ==
    /\ pc \in {"returned", "raised"}
    /\ calls < MaxRepeats
    /\ prev_out' = Outcome
    /\ calls' = calls + 1
    /\ pc' = "idle"
    /\ UNCHANGED <<rnd_pos, fake_count, stream, today, gen, n, pool, i, records, call_start>>

\* A new process imports the module, the same day or later: Faker.seed(42) and
\* random.seed(42) restart the streams
NewProcess ==
    /\ pc \in {"returned", "raised"}
    /\ calls < MaxRepeats
    /\ prev_out' = Outcome
    /\ calls' = calls + 1
    /\ pc' = "idle"
    /\ rnd_pos' = 0
    /\ fake_count' = 0
    /\ \E shift \in 0..MaxDayShift : today' = today + shift
    /\ UNCHANGED <<stream, gen, n, pool, i, records, call_start>>

GenNext ==
    \/ Invoke /\ UNCHANGED <<gaVars, whVars>>
    \/ EventStep /\ UNCHANGED <<gaVars, whVars>>
    \/ UserStep /\ UNCHANGED <<gaVars, whVars>>
    \/ TxnStep /\ UNCHANGED <<gaVars, whVars>>
    \/ Return /\ UNCHANGED <<gaVars, whVars>>

UsersNext ==
    \/ InvokeUsers /\ UNCHANGED <<gaVars, whVars>>
    \/ UserStep /\ UNCHANGED <<gaVars, whVars>>
    \/ Return /\ UNCHANGED <<gaVars, whVars>>

RepeatNext ==
    \/ InvokeRepeat /\ UNCHANGED <<gaVars, whVars>>
    \/ EventStep /\ UNCHANGED <<gaVars, whVars>>
    \/ UserStep /\ UNCHANGED <<gaVars, whVars>>
    \/ TxnStep /\ UNCHANGED <<gaVars, whVars>>
    \/ Return /\ UNCHANGED <<gaVars, whVars>>
    \/ SameProcessAgain /\ UNCHANGED <<gaVars, whVars>>
    \/ NewProcess /\ UNCHANGED <<gaVars, whVars>>

-----------------------------------------------------------------------------
\* generate_all(output_dir)

\* output_dir.mkdir(parents=True, exist_ok=True)
GaStart ==
    /\ ga_pc = "idle"
    /\ ga_pc' = "generate"
    /\ ga_k' = 1
    /\ UNCHANGED <<files, ga_w>>

\* events = generate_web_events(40_000), users_df = generate_crm_users(30_000),
\* sales_df = generate_sales_transactions(30_000): the generator raises in its
\* first iteration when its key pool is empty
GaGenerate ==
    /\ ga_pc = "generate"
    /\ ga_pc' = IF PoolSize(DATASETS[ga_k][3], DATASETS[ga_k][4]) > 0 THEN "open" ELSE "failed"
    /\ UNCHANGED <<files, ga_k, ga_w>>

\* open(path, "w") / to_csv(path) / to_parquet(path): the file is created, or
\* truncated when it exists
GaOpen ==
    /\ ga_pc = "open"
    /\ files' = [files EXCEPT ![DATASETS[ga_k][1]] = "partial"]
    /\ ga_w' = 0
    /\ ga_pc' = "write"
    /\ UNCHANGED ga_k

\* json.dump / to_csv / to_parquet write the dataset to the open file piece
\* by piece
GaWrite ==
    /\ ga_pc = "write"
    /\ ga_w < Chunks
    /\ ga_w' = ga_w + 1
    /\ UNCHANGED <<files, ga_pc, ga_k>>

\* the last piece is written and the file is closed; on to the next dataset
GaClose ==
    /\ ga_pc = "write"
    /\ ga_w = Chunks
    /\ files' = [files EXCEPT ![DATASETS[ga_k][1]] = "complete"]
    /\ IF ga_k < Len(DATASETS)
       THEN ga_k' = ga_k + 1 /\ ga_pc' = "generate"
       ELSE ga_k' = ga_k /\ ga_pc' = "done"
    /\ UNCHANGED ga_w

\* opening or writing raises OSError (disk full, permission, ...): nothing in
\* generate_all catches it or removes the file
GaIOError ==
    /\ ga_pc \in {"open", "write"}
    /\ ga_pc' = "failed"
    /\ UNCHANGED <<files, ga_k, ga_w>>

\* The output directory may hold the files of an earlier run
AllInit ==
    /\ GenInit /\ WhIdle
    /\ files \in [FileNames -> {"absent", "complete"}]
    /\ ga_pc = "idle"
    /\ ga_k = 0
    /\ ga_w = 0

AllNext ==
    \/ GaStart /\ UNCHANGED <<genVars, whVars>>
    \/ GaGenerate /\ UNCHANGED <<genVars, whVars>>
    \/ GaOpen /\ UNCHANGED <<genVars, whVars>>
    \/ GaWrite /\ UNCHANGED <<genVars, whVars>>
    \/ GaClose /\ UNCHANGED <<genVars, whVars>>
    \/ GaIOError /\ UNCHANGED <<genVars, whVars>>

-----------------------------------------------------------------------------
\* WarehouseManager

\* round(x / den) to the nearest integer, ties to even (x >= 0)
RoundDiv(x, den) ==
    LET q == x \div den
        r == 2 * (x % den)
    IN  IF r < den THEN q
        ELSE IF r > den THEN q + 1
        ELSE IF q % 2 = 0 THEN q ELSE q + 1

NS_PER_MICRO == 1000
\* CREDITS_PER_SECOND = 1/60: 1e-8 credit is 600 ns
NS_PER_CREDIT_UNIT == 600

\* the dict execute_tracked_query appends: elapsed_s = round(elapsed, 6) in
\* 1e-6 s, credits = round(elapsed * CREDITS_PER_SECOND, 8) in 1e-8 credit
Entry(label, elapsed) ==
    [label |-> label,
     elapsed_s |-> RoundDiv(elapsed, NS_PER_MICRO),
     credits |-> RoundDiv(elapsed, NS_PER_CREDIT_UNIT)]

DropStmt(schema) == [sql |-> "DROP SCHEMA IF EXISTS CASCADE", schema |-> schema]

\* setup_schemas(schema_dir): `creates` is what the .sql files of the
\* directory create, `has_files` whether it holds any .sql file
SetupSchemas(has_files, creates) ==
    /\ IF ~has_files
       THEN \* FileNotFoundError before any transaction
            /\ schemas' = schemas
            /\ last' = [op |-> "setup_schemas", confirm |-> FALSE, outcome |-> "raised",
                        stmts |-> <<>>, txns |-> 0, label |-> "", elapsed |-> 0]
       ELSE /\ schemas' = schemas \cup creates
            /\ last' = [op |-> "setup_schemas", confirm |-> FALSE, outcome |-> "ok",
                        stmts |-> <<>>, txns |-> 1, label |-> "", elapsed |-> 0]
    /\ UNCHANGED <<credit_log, report>>

DropAllSchemas_NoGuard(confirm, fail_at) ==
    LET issued == IF fail_at = 0 THEN Len(DROP_ORDER) ELSE fail_at IN
    /\ schemas' = IF fail_at = 0
                  THEN schemas \ {DROP_ORDER[k] : k \in 1..Len(DROP_ORDER)}
                  ELSE schemas
    /\ last' = [op |-> "drop_all_schemas", confirm |-> confirm,
                outcome |-> IF fail_at = 0 THEN "ok" ELSE "raised",
                stmts |-> [k \in 1..issued |-> DropStmt(DROP_ORDER[k])],
                txns |-> 1, label |-> "", elapsed |-> 0]
    /\ UNCHANGED <<credit_log, report>>

\* drop_all_schemas(confirm): fail_at = k > 0 when the database raises on the
\* k-th statement (the transaction rolls back), 0 when every statement runs;
\* engine.begin() itself is taken to succeed
DropAllSchemas(confirm, fail_at) ==
    IF ~confirm
    THEN \* RuntimeError
         /\ fail_at = 0
         /\ last' = [op |-> "drop_all_schemas", confirm |-> confirm, outcome |-> "raised",
                     stmts |-> <<>>, txns |-> 0, label |-> "", elapsed |-> 0]
         /\ UNCHANGED <<credit_log, schemas, report>>
    ELSE LET issued == IF fail_at = 0 THEN Len(DROP_ORDER) ELSE fail_at IN
         /\ schemas' = IF fail_at = 0
                       THEN schemas \ {DROP_ORDER[k] : k \in 1..Len(DROP_ORDER)}
                       ELSE schemas
         /\ last' = [op |-> "drop_all_schemas", confirm |-> confirm,
                     outcome |-> IF fail_at = 0 THEN "ok" ELSE "raised",
                     stmts |-> [k \in 1..issued |-> DropStmt(DROP_ORDER[k])],
                     txns |-> 1, label |-> "", elapsed |-> 0]
         /\ UNCHANGED <<credit_log, report>>

\* execute_tracked_query(sql, label, params): `ok` is whether the statement
\* runs; when it raises, the exception leaves the function before the append
ExecuteTrackedQuery(label, elapsed, ok) ==
    /\ credit_log' = IF ok THEN Append(credit_log, Entry(label, elapsed)) ELSE credit_log
    /\ last' = [op |-> "execute_tracked_query", confirm |-> FALSE,
                outcome |-> IF ok THEN "ok" ELSE "raised",
                stmts |-> <<>>, txns |-> 0, label |-> label, elapsed |-> elapsed]
    /\ UNCHANGED <<schemas, report>>

ReportOf_Aliased(log) ==
    [entries_obj |-> "log",
     entries |-> log,
     total_elapsed_s |-> SumSeq([k \in 1..Len(log) |-> log[k].elapsed_s]),
     total_credits |-> SumSeq([k \in 1..Len(log) |-> log[k].credits])]

\* the dict get_credit_report returns.  entries_obj tells which list object
\* "entries" is: list(self._credit_log) and the literal [] are new lists.
\* round(total, 6) and round(total, 8) of sums of multiples of 1e-6 and 1e-8
\* are the sums.
ReportOf(log) ==
    IF log = <<>>
    THEN [entries_obj |-> "copy", entries |-> <<>>,
          total_elapsed_s |-> 0, total_credits |-> 0]
    ELSE [entries_obj |-> "copy",
          entries |-> log,
          total_elapsed_s |-> SumSeq([k \in 1..Len(log) |-> log[k].elapsed_s]),
          total_credits |-> SumSeq([k \in 1..Len(log) |-> log[k].credits])]

GetCreditReport ==
    /\ report' = ReportOf(credit_log)
    /\ last' = [op |-> "get_credit_report", confirm |-> FALSE, outcome |-> "ok",
                stmts |-> <<>>, txns |-> 0, label |-> "", elapsed |-> 0]
    /\ UNCHANGED <<credit_log, schemas>>

\* The caller changes the list it was given: report["entries"].pop()
CallerPopsEntries ==
    /\ report.entries_obj # "none"
    /\ report.entries # <<>>
    /\ report' = [report EXCEPT !.entries = SubSeq(@, 1, Len(@) - 1)]
    /\ credit_log' = IF report.entries_obj = "log"
                     THEN SubSeq(credit_log, 1, Len(credit_log) - 1)
                     ELSE credit_log
    /\ last' = [op |-> "caller_pops_entries", confirm |-> FALSE, outcome |-> "ok",
                stmts |-> <<>>, txns |-> 0, label |-> "", elapsed |-> 0]
    /\ UNCHANGED schemas

WhNext ==
    \/ (\E has_files \in BOOLEAN, creates \in SUBSET SCHEMAS : SetupSchemas(has_files, creates))
          /\ UNCHANGED <<genVars, gaVars>>
    \/ (\E confirm \in BOOLEAN, fail_at \in 0..Len(DROP_ORDER) : DropAllSchemas(confirm, fail_at))
          /\ UNCHANGED <<genVars, gaVars>>
    \/ (\E label \in Labels, elapsed \in ElapsedSamples, ok \in BOOLEAN :
            /\ Len(credit_log) < MaxLog
            /\ ExecuteTrackedQuery(label, elapsed, ok))
          /\ UNCHANGED <<genVars, gaVars>>
    \/ GetCreditReport /\ UNCHANGED <<genVars, gaVars>>
    \/ CallerPopsEntries /\ UNCHANGED <<genVars, gaVars>>

-----------------------------------------------------------------------------
Init == GenInit /\ GaIdle /\ WhIdle

\* One call of any generator
SpecGen == Init /\ [][GenNext]_vars
\* One call of generate_crm_users
SpecUsers == Init /\ [][UsersNext]_vars
\* A generator called twice with the same n
SpecRepeat == Init /\ [][RepeatNext]_vars

\* generate_all, in a directory that may hold earlier output
SpecAll == AllInit /\ [][AllNext]_vars
\* Calls on one WarehouseManager
SpecWarehouse == Init /\ [][WhNext]_vars

-----------------------------------------------------------------------------
\* Properties

CeilDiv(a, b) == (a + b - 1) \div b

KeepPct(g) == IF g = "events" THEN SESSION_KEEP_PCT
              ELSE IF g = "users" THEN EMAIL_KEEP_PCT ELSE TXN_KEEP_PCT

Codes == {US_STATES_ABBR[k] : k \in 1..Len(US_STATES_ABBR)}
FullNames == {STATE_FULL_NAMES[c] : c \in DOMAIN STATE_FULL_NAMES}

\* C1: two invocations of the same generator with the same seed and the same
\* n give the same outcome, row for row, whether the second is made later in
\* the same process or in a new process on another day.
C1_SameOutputOnRepeat ==
    (calls > 0 /\ pc \in {"returned", "raised"}) => Outcome = prev_out

\* C2: a generator called with n <= 0 fails before anything is drawn from the
\* streams and returns no dataset.
C2_NonPositiveCountFails ==
    (pc # "idle" /\ n <= 0) =>
        /\ pc # "returned"
        /\ rnd_pos = call_start
        /\ fake_count = 0

\* C4: for n > 0 the key pool of the running generator holds exactly
\* ceil(n * (1 - dup_ratio)) values, pairwise distinct.
C4_PoolSizeIsCeil ==
    (pc # "idle" /\ n > 0) =>
        /\ Len(pool) = CeilDiv(n * KeepPct(gen), 100)
        /\ \A j, k \in 1..Len(pool) : j # k => pool[j] # pool[k]

\* C5 as stated: every e-mail of the pool is the e-mail of at least one of
\* the records generate_crm_users returns, whatever the duplicate policy did.
C5_EveryPoolEmailUsed ==
    (gen = "users" /\ pc = "returned") =>
        \A j \in 1..Len(pool) : \E k \in 1..Len(records) : records[k].email = pool[j]

\* C5 amended: an e-mail of the pool is the e-mail of at least one returned
\* record whenever the duplicate policy did not fire at some record index i
\* with i % len(email_pool) equal to the e-mail's position; so all of them
\* are when the policy fired nowhere.
C5_PoolEmailUsedWherePolicyQuiet ==
    (gen = "users" /\ pc = "returned") =>
        \A j \in 1..Len(pool) :
            (\E k \in 1..Len(records) :
                ~DrawOf(k).dup /\ ((k - 1) % Len(pool)) + 1 = j)
            => \E k \in 1..Len(records) : records[k].email = pool[j]

\* a returned run of generate_crm_users in which the duplicate policy fired
\* and the pool has several e-mails
C5_Witness ==
    /\ gen = "users" /\ pc = "returned"
    /\ Len(pool) >= 2
    /\ \E k \in 1..Len(records) : DrawOf(k).dup
    /\ \E k \in 1..Len(records) : ~DrawOf(k).dup

\* C6: in every transaction record total_amount is quantity times the emitted
\* unit_price, rounded to 4 decimals, negated where the refund policy fired.
C6_TotalMatchesEmittedPrice ==
    gen = "transactions" =>
        \A k \in 1..Len(records) :
            LET r == records[k]
                expected == Round4(r.quantity * (r.unit_price * 10))
            IN  r.total_amount = IF DrawOf(k).refund THEN -expected ELSE expected

\* the code-to-name table: total on the 50 codes, injective, no name a code
StateTableWellFormed ==
    /\ Cardinality(Codes) = 50
    /\ DOMAIN STATE_FULL_NAMES = Codes
    /\ \A c, d \in Codes : STATE_FULL_NAMES[c] = STATE_FULL_NAMES[d] => c = d
    /\ FullNames \cap Codes = {}

\* C7: the state of every CRM record is the code drawn for it or that code's
\* full name, and one of the two only; the code-to-name table is total on the
\* 50 codes, injective, and no name is a code.
C7_OneStateRepresentation ==
    /\ gen = "users" =>
          \A k \in 1..Len(records) :
              LET c == US_STATES_ABBR[DrawOf(k).abbr_idx]
                  v == records[k].state
              IN  /\ v = c \/ v = STATE_FULL_NAMES[c]
                  /\ ~(v \in Codes /\ v \in FullNames)
                  /\ v \in FullNames =>
                        Cardinality({d \in Codes : STATE_FULL_NAMES[d] = v}) = 1
    /\ StateTableWellFormed

\* records with a full name and with a code, for a code other than the first
C7_Witness ==
    /\ gen = "users" /\ pc = "returned"
    /\ \E k \in 1..Len(records) :
          DrawOf(k).abbr_idx > 1 /\ records[k].state \in FullNames
    /\ \E k \in 1..Len(records) : records[k].state \in Codes

\* C9: for n > 0 no generator raises, and a returned call gives n records.
C9_ReturnsNRecords ==
    (pc # "idle" /\ n > 0) =>
        /\ pc # "raised"
        /\ pc = "returned" => Len(records) = n

\* C3: when generate_all fails, every output file is absent or complete.
C3_NoPartialFileAfterFailure ==
    ga_pc = "failed" => \A f \in FileNames : files[f] \in {"absent", "complete"}

IsPrefix(s, t) == Len(s) <= Len(t) /\ s = SubSeq(t, 1, Len(s))

AllDrops == [k \in 1..Len(DROP_ORDER) |-> DropStmt(DROP_ORDER[k])]

\* C8: drop_all_schemas without confirm raises, opens no transaction, issues
\* no statement and leaves schemas and credit log as they were; with confirm
\* it issues the drops of gold, silver, bronze in that order in one
\* transaction; and nothing else removes a schema.
C8_DropOnlyWhenConfirmed ==
    [][ /\ (last'.op = "drop_all_schemas" /\ ~last'.confirm) =>
              /\ last'.outcome = "raised"
              /\ last'.txns = 0
              /\ last'.stmts = <<>>
              /\ schemas' = schemas
              /\ credit_log' = credit_log
        /\ (last'.op = "drop_all_schemas" /\ last'.confirm) =>
              /\ last'.txns = 1
              /\ IsPrefix(last'.stmts, AllDrops)
              /\ last'.outcome = "ok" =>
                    (last'.stmts = AllDrops /\ schemas' \cap SCHEMAS = {})
              /\ credit_log' = credit_log
        /\ ~(schemas \subseteq schemas') =>
              (last'.op = "drop_all_schemas" /\ last'.confirm)
      ]_vars

\* a refused drop with schemas present and queries logged
C8_Witness ==
    /\ last.op = "drop_all_schemas" /\ ~last.confirm /\ last.outcome = "raised"
    /\ schemas = SCHEMAS
    /\ credit_log # <<>>

\* C10: the credit log gains exactly one entry, at its end and with the
\* call's label, per execute_tracked_query call that completes, and is
\* otherwise never changed (not by a failing call, not by changing the list
\* a report returned); a report's entries are the log, its totals the sums of
\* the entries' elapsed_s and credits, and zero with no entries for an empty
\* log.
C10_CreditLog ==
    /\ [][ IF last'.op = "execute_tracked_query" /\ last'.outcome = "ok"
           THEN /\ Len(credit_log') = Len(credit_log) + 1
                /\ SubSeq(credit_log', 1, Len(credit_log)) = credit_log
                /\ credit_log'[Len(credit_log')].label = last'.label
           ELSE credit_log' = credit_log
         ]_vars
    /\ [](last.op = "get_credit_report" =>
            /\ report.entries = credit_log
            /\ report.total_elapsed_s =
                  SumSeq([k \in 1..Len(credit_log) |-> credit_log[k].elapsed_s])
            /\ report.total_credits =
                  SumSeq([k \in 1..Len(credit_log) |-> credit_log[k].credits])
            /\ credit_log = <<>> =>
                  (report.total_elapsed_s = 0 /\ report.total_credits = 0
                   /\ report.entries = <<>>))

\* the caller has emptied the list of a report while the log holds two entries
C10_Witness ==
    /\ last.op = "caller_pops_entries"
    /\ Len(credit_log) = 2
    /\ credit_log[1].label # credit_log[2].label
    /\ report.entries = <<>>

====
